---- MODULE Spec2Model ----
(***************************************************************************)
(* Model of the video generation services of backend/services:            *)
(*   - OviService.generate_videos_batch / _generate_on_gpu                 *)
(*     (ovi_service.py): batch distribution over GPUs on one asyncio loop  *)
(*   - GeminiFallback.generate_video / _poll_for_video_http                *)
(*     (gemini_fallback.py): submit a long-running operation and poll it   *)
(*                                                                         *)
(* Python values: None is the record None; a dict is a record; a list is   *)
(* a sequence; an environment variable is <<>> when absent and <<v>> when   *)
(* set to v.                                                               *)
(***************************************************************************)
EXTENDS Integers, Sequences, FiniteSets, TLC

\* ------------------------------------------------------------- bounds
\* Longest batch of prompts and largest GPU count explored.
MaxPrompts == 4
MaxGpus == 3
\* Length of the batch the orchestrator is given.
MaxOrchBatch == 2

\* ------------------------------------------------------------ values
None == [py |-> "None"]

\* The batches explored, a prompt string being named by a number: n
\* different prompts, and n times the same prompt, for every n up to
\* MaxPrompts.
DistinctPrompts(n) == [i \in 1 .. n |-> i]
RepeatedPrompt(n) == [i \in 1 .. n |-> 1]
PromptLists == UNION {{DistinctPrompts(n), RepeatedPrompt(n)} : n \in 0 .. MaxPrompts}

\* Values CUDA_VISIBLE_DEVICES may hold when the batch is called:
\* absent, or set by the operator of the process.
EnvAbsent == <<>>
InitialEnvs == {EnvAbsent, <<"all">>}

\* str(gpu_id), ovi_service.py line 262: the decimal string of a GPU index.
Digit(d) == CASE d = 0 -> "0" [] d = 1 -> "1" [] d = 2 -> "2" [] d = 3 -> "3"
              [] d = 4 -> "4" [] d = 5 -> "5" [] d = 6 -> "6" [] d = 7 -> "7"
              [] d = 8 -> "8" [] d = 9 -> "9"

RECURSIVE Str(_)
Str(n) == IF n < 10 THEN <<Digit(n)>> ELSE Str(n \div 10) \o <<Digit(n % 10)>>

\* The dict generate_video returns for a generated video (lines 124-128 and
\* 166-170): the base64 text of the file produced for the prompt.
B64(video) == <<"b64", video>>
OviSuccessWithPath(prompt) ==
    [video_base64 |-> B64(prompt), video_url |-> <<"path", prompt>>,
     provider |-> "ovi"]
OviSuccess(prompt) ==
    [video_base64 |-> B64(prompt), video_url |-> None, provider |-> "ovi"]

\* What one call of OviService.generate_video(prompt) can return when the
\* service is available: the dict, or None on any fault (lines 154-156,
\* 172, 174-176).
GenerateVideoOutcomes(prompt) == {OviSuccess(prompt), None}

\* [None] * n
RECURSIVE Nones(_)
Nones(n) == IF n = 0 THEN <<>> ELSE <<None>> \o Nones(n - 1)

\* ------------------------------------------------------------- state
VARIABLES
    available,   \* OviService.available
    num_gpus,    \* OviService.num_gpus
    prompts,     \* argument of generate_videos_batch
    env,         \* os.environ["CUDA_VISIBLE_DEVICES"]
    env0,        \* its value when generate_videos_batch was called
    bpc,         \* position of generate_videos_batch
    groups,      \* gpu_prompts of each gpu_id (index gpu_id + 1)
    tasks,       \* the list tasks: gpu_ids in the order of their tasks
    unit,        \* state of each _generate_on_gpu task, by gpu_id
    running,     \* the task the event loop is running, or NoTask
    seq,         \* the sequential path: results so far, call in flight
    out,         \* the returned list
    handed       \* per prompt position: who called generate_video for it

batchVars == <<available, num_gpus, prompts, env, env0, bpc, groups, tasks,
               unit, running, seq, out, handed>>

VARIABLES
    api_key,           \* GeminiFallback.api_key: <<>> is None, <<k>> the key k
    gemini_available,  \* GeminiFallback.available
    fpc,               \* position of GeminiFallback.generate_video
    retries,           \* retries of _poll_for_video_http
    queries,           \* status queries issued (client.get, line 110)
    sleeps,            \* waits done (asyncio.sleep(5), line 106)
    nNotDone,          \* queries answered "not done"
    nFail,             \* queries that failed (HTTP error or exception)
    lastResp,          \* the answer to the last status query
    video_url,         \* what _poll_for_video_http returned
    pollExit,          \* the return statement it left by
    fresult,           \* what generate_video returned
    submit             \* how the submit request of lines 66-83 ended

pollVars == <<api_key, gemini_available, fpc, retries, queries, sleeps, nNotDone,
              nFail, lastResp, video_url, pollExit, fresult, submit>>

VARIABLES
    gprompt,     \* argument of OviService.generate_video
    gpc,         \* position of OviService.generate_video
    gresult,     \* what it returned
    gfault,      \* the fault that ended it, "none" without one
    ginvoked     \* times the backend was started (lines 111, 146)

singleVars == <<gprompt, gpc, gresult, gfault, ginvoked>>

VARIABLES
    okind,       \* the request of the orchestrator: "single" or "batch"
    opc,         \* position of the orchestrator
    oresult,     \* the result it returned (a list for a batch)
    oerrors,     \* the terminal error; batch: the items whose fallback failed
    fbCalls      \* calls of GeminiFallback.generate_video it made

orchVars == <<okind, opc, oresult, oerrors, fbCalls>>

VARIABLES
    wkey,        \* WAVESPEED_API_KEY of the proxies: <<>> when not set
    preq,        \* the request to a proxy endpoint and what the upstream does
    ppc,         \* position of the endpoint, per implementation
    presp,       \* the response to the caller, per implementation
    psent        \* requests sent upstream, per implementation

proxyVars == <<wkey, preq, ppc, presp, psent>>

vars == <<batchVars, pollVars, singleVars, orchVars, proxyVars>>

NoTask == -1

Gpus == 0 .. (num_gpus - 1)

\* ----------------------------------------------------- the partition
\* The inner loop of lines 208-211: take up to count prompts from prompt_idx.
RECURSIVE Take(_, _, _)
Take(ps, prompt_idx, count) ==
    IF count = 0 THEN <<>>
    ELSE IF prompt_idx < Len(ps)
         THEN <<ps[prompt_idx + 1]>> \o Take(ps, prompt_idx + 1, count - 1)
         ELSE Take(ps, prompt_idx, count - 1)

\* Line 206 with gpu_id <= remaining: one GPU too many gets an extra prompt.
GpuCountInclusive(ps, n, gpu_id) ==
    (Len(ps) \div n) + (IF gpu_id <= Len(ps) % n THEN 1 ELSE 0)

\* count of line 206
GpuCount(ps, n, gpu_id) ==
    (Len(ps) \div n) + (IF gpu_id < Len(ps) % n THEN 1 ELSE 0)

\* The outer loop of lines 204-218: gpu_prompts of gpu_id, gpu_id + 1, ...
RECURSIVE Distribute(_, _, _, _)
Distribute(ps, n, gpu_id, prompt_idx) ==
    IF gpu_id >= n THEN <<>>
    ELSE LET gpu_prompts == Take(ps, prompt_idx, GpuCount(ps, n, gpu_id))
         IN  <<gpu_prompts>>
             \o Distribute(ps, n, gpu_id + 1, prompt_idx + Len(gpu_prompts))

\* The gpu_ids whose task is appended to tasks (line 213: if gpu_prompts).
RECURSIVE TaskList(_, _)
TaskList(gs, gpu_id) ==
    IF gpu_id >= Len(gs) THEN <<>>
    ELSE (IF gs[gpu_id + 1] # <<>> THEN <<gpu_id>> ELSE <<>>)
         \o TaskList(gs, gpu_id + 1)

\* ------------------------------------------------------ unit tasks
\* The position in prompts of the first prompt of gpu_id's group: the value
\* of prompt_idx when the loop of lines 204-218 reaches gpu_id.
RECURSIVE GroupStart(_, _)
GroupStart(gs, gpu_id) ==
    IF gpu_id = 0 THEN 0 ELSE GroupStart(gs, gpu_id - 1) + Len(gs[gpu_id])

\* The call generate_video(prompt) for the prompt at position p, made by
\* the task of a GPU, or by the batch itself (NoTask) on the sequential path.
Hand(h, p, by) == [h EXCEPT ![p] = Append(@, by)]

NoUnit == [pc |-> "notask", original_env |-> EnvAbsent, results |-> <<>>]
NewUnit == [pc |-> "pending", original_env |-> EnvAbsent, results |-> <<>>]

Terminal == {"done", "failed", "cancelled"}

\* asyncio runs the first step of every gathered task in creation order,
\* before any of them is resumed.
Pending(u) == unit[u].pc = "pending"
NonePending == \A i \in 1 .. Len(tasks) : ~Pending(tasks[i])
FirstPending(u) ==
    \E i \in 1 .. Len(tasks) :
        /\ tasks[i] = u
        /\ Pending(u)
        /\ \A j \in 1 .. (i - 1) : ~Pending(tasks[j])

\* The finally block of _generate_on_gpu, lines 274-279.
Restored(original_env, cur) ==
    IF original_env # EnvAbsent THEN original_env
    ELSE IF cur # EnvAbsent THEN EnvAbsent
    ELSE cur

\* Lines 258-262: remember the variable, set it to str(gpu_id); the task
\* then runs on to its first await.
TaskStart(u) ==
    /\ bpc = "gather"
    /\ running = NoTask
    /\ FirstPending(u)
    /\ unit' = [unit EXCEPT ![u].pc = "active", ![u].original_env = env]
    /\ env' = Str(u)
    /\ running' = u
    /\ UNCHANGED <<pollVars, singleVars, orchVars, proxyVars>>
    /\ UNCHANGED <<available, num_gpus, prompts, handed, env0, bpc, groups, tasks, seq, out>>

\* Lines 266-270 with generate_video returning None before it awaits
\* anything (a fault ahead of the first await, lines 174-176).
GenNoSuspend(u) ==
    /\ running = u
    /\ unit[u].pc = "active"
    /\ Len(unit[u].results) < Len(groups[u + 1])
    /\ unit' = [unit EXCEPT ![u].results = Append(@, None)]
    /\ handed' = Hand(handed, GroupStart(groups, u) + Len(unit[u].results) + 1, u)
    /\ UNCHANGED <<pollVars, singleVars, orchVars, proxyVars>>
    /\ UNCHANGED <<available, num_gpus, prompts, env, env0, bpc, groups, tasks,
                   running, seq, out>>

\* Lines 266-269: generate_video awaits the backend (lines 111, 146-152);
\* the task is suspended inside the call and the loop is free.
GenSuspend(u) ==
    /\ running = u
    /\ unit[u].pc = "active"
    /\ Len(unit[u].results) < Len(groups[u + 1])
    /\ unit' = [unit EXCEPT ![u].pc = "ingen"]
    /\ running' = NoTask
    /\ handed' = Hand(handed, GroupStart(groups, u) + Len(unit[u].results) + 1, u)
    /\ UNCHANGED <<pollVars, singleVars, orchVars, proxyVars>>
    /\ UNCHANGED <<available, num_gpus, prompts, env, env0, bpc, groups, tasks, seq, out>>

\* Line 270 skipped for a None result: the loop tries the same prompt again.
GenResumeRetries(u) ==
    /\ running = NoTask
    /\ NonePending
    /\ u \in Gpus
    /\ unit[u].pc = "ingen"
    /\ \E r \in GenerateVideoOutcomes(groups[u + 1][Len(unit[u].results) + 1]) :
           unit' = [unit EXCEPT ![u].pc = "active",
                                ![u].results = IF r = None THEN @ ELSE Append(@, r)]
    /\ running' = u
    /\ UNCHANGED <<pollVars, singleVars, orchVars, proxyVars>>
    /\ UNCHANGED <<available, num_gpus, prompts, handed, env, env0, bpc, groups, tasks, seq, out>>

\* The awaited backend finishes: generate_video returns r, line 270 appends.
GenResume(u) ==
    /\ running = NoTask
    /\ NonePending
    /\ u \in Gpus
    /\ unit[u].pc = "ingen"
    /\ \E r \in GenerateVideoOutcomes(groups[u + 1][Len(unit[u].results) + 1]) :
           unit' = [unit EXCEPT ![u].pc = "active", ![u].results = Append(@, r)]
    /\ running' = u
    /\ UNCHANGED <<pollVars, singleVars, orchVars, proxyVars>>
    /\ UNCHANGED <<available, num_gpus, prompts, handed, env, env0, bpc, groups, tasks, seq, out>>

\* Lines 266-272 with a break after a None result.
TaskReturnOnFailure(u) ==
    /\ running = u
    /\ unit[u].pc = "active"
    /\ \/ Len(unit[u].results) = Len(groups[u + 1])
       \/ /\ unit[u].results # <<>>
          /\ unit[u].results[Len(unit[u].results)] = None
    /\ env' = Restored(unit[u].original_env, env)
    /\ unit' = [unit EXCEPT ![u].pc = "done"]
    /\ running' = NoTask
    /\ UNCHANGED <<pollVars, singleVars, orchVars, proxyVars>>
    /\ UNCHANGED <<available, num_gpus, prompts, handed, env0, bpc, groups, tasks, seq, out>>

\* Line 272 and the finally block: the task returns its results.
TaskReturn(u) ==
    /\ running = u
    /\ unit[u].pc = "active"
    /\ Len(unit[u].results) = Len(groups[u + 1])
    /\ env' = Restored(unit[u].original_env, env)
    /\ unit' = [unit EXCEPT ![u].pc = "done"]
    /\ running' = NoTask
    /\ UNCHANGED <<pollVars, singleVars, orchVars, proxyVars>>
    /\ UNCHANGED <<available, num_gpus, prompts, handed, env0, bpc, groups, tasks, seq, out>>

\* An Exception raised in the body of _generate_on_gpu (outside
\* generate_video, which catches its own): the finally block runs and the
\* task ends with the exception, which gather hands back (lines 221, 226).
TaskRaise(u) ==
    /\ running = u
    /\ unit[u].pc = "active"
    /\ env' = Restored(unit[u].original_env, env)
    /\ unit' = [unit EXCEPT ![u].pc = "failed"]
    /\ running' = NoTask
    /\ UNCHANGED <<pollVars, singleVars, orchVars, proxyVars>>
    /\ UNCHANGED <<available, num_gpus, prompts, handed, env0, bpc, groups, tasks, seq, out>>

\* The task is cancelled while suspended in generate_video: CancelledError
\* is no Exception, so line 174 lets it through; the finally block runs.
TaskCancel(u) ==
    /\ running = NoTask
    /\ NonePending
    /\ u \in Gpus
    /\ unit[u].pc = "ingen"
    /\ env' = Restored(unit[u].original_env, env)
    /\ unit' = [unit EXCEPT ![u].pc = "cancelled"]
    /\ UNCHANGED <<pollVars, singleVars, orchVars, proxyVars>>
    /\ UNCHANGED <<available, num_gpus, prompts, handed, env0, bpc, groups, tasks,
                   running, seq, out>>

\* ------------------------------------------------- generate_videos_batch
\* Lines 224-230 with the later task's results put first.
RECURSIVE FlatResultsReversed(_, _, _)
FlatResultsReversed(ts, us, n) ==
    IF ts = <<>> THEN <<>>
    ELSE FlatResultsReversed(Tail(ts), us, n)
         \o (IF us[Head(ts)].pc = "failed" THEN Nones(n)
             ELSE us[Head(ts)].results)

\* Lines 224-230: flatten the gathered results, task by task.
RECURSIVE FlatResults(_, _, _)
FlatResults(ts, us, n) ==
    IF ts = <<>> THEN <<>>
    ELSE (IF us[Head(ts)].pc = "failed" THEN Nones(n)
          ELSE us[Head(ts)].results)
         \o FlatResults(Tail(ts), us, n)

Truncate(s, n) == SubSeq(s, 1, IF Len(s) < n THEN Len(s) ELSE n)

\* Line 232 without the slice [:len(prompts)].
GatherResultNoSlice(ts, us, n) ==
    IF \E i \in 1 .. Len(ts) : us[ts[i]].pc = "cancelled"
    THEN Nones(n)
    ELSE FlatResults(ts, us, n)

\* What the multi-GPU path returns once gather has every result. A cancelled
\* task's result is a CancelledError, which is no Exception: line 230 extends
\* the list with it, the TypeError lands in the handler of lines 244-246.
GatherResult(ts, us, n) ==
    IF \E i \in 1 .. Len(ts) : us[ts[i]].pc = "cancelled"
    THEN Nones(n)
    ELSE Truncate(FlatResults(ts, us, n), n)

\* Lines 191-192: the service is not available.
BatchUnavailable ==
    /\ bpc = "call"
    /\ ~available
    /\ out' = Nones(Len(prompts))
    /\ bpc' = "returned"
    /\ UNCHANGED <<pollVars, singleVars, orchVars, proxyVars>>
    /\ UNCHANGED <<available, num_gpus, prompts, handed, env, env0, groups, tasks, unit,
                   running, seq>>

\* Lines 196-221: partition the prompts, create the tasks, await gather.
BatchFanOut ==
    /\ bpc = "call"
    /\ available
    /\ num_gpus > 1
    /\ groups' = Distribute(prompts, num_gpus, 0, 0)
    /\ tasks' = TaskList(groups', 0)
    /\ unit' = [u \in Gpus |-> IF groups'[u + 1] # <<>> THEN NewUnit ELSE NoUnit]
    /\ bpc' = "gather"
    /\ UNCHANGED <<pollVars, singleVars, orchVars, proxyVars>>
    /\ UNCHANGED <<available, num_gpus, prompts, handed, env, env0, running, seq, out>>

\* Line 221 without return_exceptions=True: the first exception of a task
\* ends the gather while the other tasks go on; lines 244-246 return.
GatherReturnFirstException ==
    /\ bpc = "gather"
    /\ running = NoTask
    /\ \/ \A i \in 1 .. Len(tasks) : unit[tasks[i]].pc \in Terminal
       \/ \E i \in 1 .. Len(tasks) : unit[tasks[i]].pc = "failed"
    /\ out' = GatherResult(tasks, unit, Len(prompts))
    /\ bpc' = "returned"
    /\ UNCHANGED <<pollVars, singleVars, orchVars, proxyVars>>
    /\ UNCHANGED <<available, num_gpus, prompts, handed, env, env0, groups, tasks, unit,
                   running, seq>>

\* Lines 221-232: gather has every task's result.
GatherReturn ==
    /\ bpc = "gather"
    /\ running = NoTask
    /\ \A i \in 1 .. Len(tasks) : unit[tasks[i]].pc \in Terminal
    /\ out' = GatherResult(tasks, unit, Len(prompts))
    /\ bpc' = "returned"
    /\ UNCHANGED <<pollVars, singleVars, orchVars, proxyVars>>
    /\ UNCHANGED <<available, num_gpus, prompts, handed, env, env0, groups, tasks, unit,
                   running, seq>>

\* Lines 234-236: one GPU or none.
BatchSequential ==
    /\ bpc = "call"
    /\ available
    /\ num_gpus <= 1
    /\ bpc' = "seq"
    /\ seq' = [results |-> <<>>, inflight |-> FALSE]
    /\ UNCHANGED <<pollVars, singleVars, orchVars, proxyVars>>
    /\ UNCHANGED <<available, num_gpus, prompts, handed, env, env0, groups, tasks, unit,
                   running, out>>

\* Lines 237-240 preceded by line 262 for GPU 0.
SeqGenCallTargetsGpu ==
    /\ bpc = "seq"
    /\ ~seq.inflight
    /\ Len(seq.results) < Len(prompts)
    /\ seq' = [seq EXCEPT !.inflight = TRUE]
    /\ handed' = Hand(handed, Len(seq.results) + 1, NoTask)
    /\ env' = Str(0)
    /\ UNCHANGED <<pollVars, singleVars, orchVars, proxyVars>>
    /\ UNCHANGED <<available, num_gpus, prompts, env0, bpc, groups, tasks,
                   unit, running, out>>

\* Lines 237-240: the next prompt's generate_video is called and awaited.
SeqGenCall ==
    /\ bpc = "seq"
    /\ ~seq.inflight
    /\ Len(seq.results) < Len(prompts)
    /\ seq' = [seq EXCEPT !.inflight = TRUE]
    /\ handed' = Hand(handed, Len(seq.results) + 1, NoTask)
    /\ UNCHANGED <<pollVars, singleVars, orchVars, proxyVars>>
    /\ UNCHANGED <<available, num_gpus, prompts, env, env0, bpc, groups, tasks,
                   unit, running, out>>

\* Line 241 followed by a return of the results so far on a None result.
SeqGenReturnStopsOnFailure ==
    /\ bpc = "seq"
    /\ seq.inflight
    /\ \E r \in GenerateVideoOutcomes(prompts[Len(seq.results) + 1]) :
           /\ seq' = [results |-> Append(seq.results, r), inflight |-> FALSE]
           /\ bpc' = IF r = None THEN "returned" ELSE bpc
           /\ out' = IF r = None THEN Append(seq.results, r) ELSE out
    /\ UNCHANGED <<pollVars, singleVars, orchVars, proxyVars>>
    /\ UNCHANGED <<available, num_gpus, prompts, handed, env, env0, groups, tasks,
                   unit, running>>

\* Line 241: it returned r.
SeqGenReturn ==
    /\ bpc = "seq"
    /\ seq.inflight
    /\ \E r \in GenerateVideoOutcomes(prompts[Len(seq.results) + 1]) :
           seq' = [results |-> Append(seq.results, r), inflight |-> FALSE]
    /\ UNCHANGED <<pollVars, singleVars, orchVars, proxyVars>>
    /\ UNCHANGED <<available, num_gpus, prompts, handed, env, env0, bpc, groups, tasks,
                   unit, running, out>>

\* Line 242.
SeqReturn ==
    /\ bpc = "seq"
    /\ ~seq.inflight
    /\ Len(seq.results) = Len(prompts)
    /\ out' = seq.results
    /\ bpc' = "returned"
    /\ UNCHANGED <<pollVars, singleVars, orchVars, proxyVars>>
    /\ UNCHANGED <<available, num_gpus, prompts, handed, env, env0, groups, tasks, unit,
                   running, seq>>

\* Lines 244-246: an Exception in the sequential loop itself.
SeqExcept ==
    /\ bpc = "seq"
    /\ ~seq.inflight
    /\ out' = Nones(Len(prompts))
    /\ bpc' = "returned"
    /\ UNCHANGED <<pollVars, singleVars, orchVars, proxyVars>>
    /\ UNCHANGED <<available, num_gpus, prompts, handed, env, env0, groups, tasks, unit,
                   running, seq>>

BatchInit ==
    /\ available \in BOOLEAN
    /\ num_gpus \in 0 .. MaxGpus
    /\ prompts \in PromptLists
    /\ env \in InitialEnvs
    /\ env0 = env
    /\ bpc = "call"
    /\ groups = <<>>
    /\ tasks = <<>>
    /\ unit = [u \in Gpus |-> NoUnit]
    /\ running = NoTask
    /\ seq = [results |-> <<>>, inflight |-> FALSE]
    /\ out = <<>>
    /\ handed = [p \in 1 .. Len(prompts) |-> <<>>]

\* The batch of an available service.
BatchAvailableNext ==
    \/ BatchFanOut
    \/ BatchSequential
    \/ \E u \in Gpus : TaskStart(u)
    \/ \E u \in Gpus : GenNoSuspend(u)
    \/ \E u \in Gpus : GenSuspend(u)
    \/ \E u \in Gpus : GenResume(u)
    \/ \E u \in Gpus : TaskReturn(u)
    \/ \E u \in Gpus : TaskRaise(u)
    \/ \E u \in Gpus : TaskCancel(u)
    \/ GatherReturn
    \/ SeqGenCall
    \/ SeqGenReturn
    \/ SeqReturn
    \/ SeqExcept

BatchNext ==
    \/ BatchUnavailable
    \/ BatchAvailableNext

\* =========================================================== fallback
\* max_retries, the default of _poll_for_video_http (the only value
\* generate_video calls it with).
max_retries == 30

\* The URIs a completed operation may carry.
Uris == {"uri1", "uri2"}

\* Line 131: f"{video_uri}&key={self.api_key}"
UrlWithKey(video_uri, key) == [uri |-> video_uri, suffix |-> <<"&key=", key>>]

\* Lines 88-94 without the test of video_url: a dict whatever was polled.
GenerateVideoResultUntested(url) == [video_url |-> url, provider |-> "gemini"]

\* Lines 88-94: the dict for a video URL, None without one.
GenerateVideoResult(url) ==
    IF url # None THEN [video_url |-> url, provider |-> "gemini"] ELSE None

\* The answers to a status query. A failed query: a non-success HTTP
\* response (line 112), or an exception (line 139: network error, timeout,
\* a body that is no JSON object). A successful one: "done" false or
\* missing, or "done" true with a video URI, or "done" true without one
\* (no response, no generatedVideos, no uri, or a shape that makes the
\* extraction raise, line 132).
NoArtifactKinds == {"no_response", "no_videos", "no_uri", "malformed"}
Resp(kind, uri) == [kind |-> kind, uri |-> uri]
NoResp == Resp("none", "")

\* What _poll_for_video_http returns for a done operation without URI
\* (line 135) and when the loop ends (line 144).
PollNoArtifactReturn == None
PollTimeoutReturn == None

PollIdle ==
    /\ retries = 0
    /\ queries = 0
    /\ sleeps = 0
    /\ nNotDone = 0
    /\ nFail = 0
    /\ lastResp = NoResp
    /\ video_url = None
    /\ pollExit = "none"
    /\ fresult = None
    /\ submit = "none"

\* Lines 44-45.
FbUnavailable ==
    /\ fpc = "call"
    /\ ~gemini_available
    /\ fresult' = None
    /\ fpc' = "returned"
    /\ UNCHANGED <<batchVars, singleVars, orchVars, proxyVars>>
    /\ UNCHANGED <<api_key, gemini_available, submit, retries, queries, sleeps, nNotDone,
                   nFail, lastResp, video_url, pollExit>>

\* Lines 47-71: the submit request is sent.
FbSubmit ==
    /\ fpc = "call"
    /\ gemini_available
    /\ fpc' = "post"
    /\ UNCHANGED <<batchVars, singleVars, orchVars, proxyVars>>
    /\ UNCHANGED <<api_key, gemini_available, submit, retries, queries, sleeps, nNotDone,
                   nFail, lastResp, video_url, pollExit, fresult>>

\* Lines 73-76: the submit response is no success; None, no polling.
PostRejected ==
    /\ fpc = "post"
    /\ submit' = "rejected"
    /\ fresult' = None
    /\ fpc' = "returned"
    /\ UNCHANGED <<batchVars, singleVars, orchVars, proxyVars>>
    /\ UNCHANGED <<api_key, gemini_available, retries, queries, sleeps, nNotDone,
                   nFail, lastResp, video_url, pollExit>>

\* Lines 78-86 without the test of lines 81-83: polling starts without an
\* operation name.
PostNoNamePolls ==
    /\ fpc = "post"
    /\ submit' = "noname"
    /\ retries' = 0
    /\ fpc' = "poll_loop"
    /\ UNCHANGED <<batchVars, singleVars, orchVars, proxyVars>>
    /\ UNCHANGED <<api_key, gemini_available, queries, sleeps, nNotDone,
                   nFail, lastResp, video_url, pollExit, fresult>>

\* Lines 78-83: the response names no operation; None, no polling.
PostNoName ==
    /\ fpc = "post"
    /\ submit' = "noname"
    /\ fresult' = None
    /\ fpc' = "returned"
    /\ UNCHANGED <<batchVars, singleVars, orchVars, proxyVars>>
    /\ UNCHANGED <<api_key, gemini_available, retries, queries, sleeps, nNotDone,
                   nFail, lastResp, video_url, pollExit>>

\* Lines 96-98: the request or response.json() raised; None, no polling.
PostException ==
    /\ fpc = "post"
    /\ submit' = "exception"
    /\ fresult' = None
    /\ fpc' = "returned"
    /\ UNCHANGED <<batchVars, singleVars, orchVars, proxyVars>>
    /\ UNCHANGED <<api_key, gemini_available, retries, queries, sleeps, nNotDone,
                   nFail, lastResp, video_url, pollExit>>

\* Lines 78-86 and 102-104: an operation name came back; polling starts.
PostAccepted ==
    /\ fpc = "post"
    /\ submit' = "accepted"
    /\ retries' = 0
    /\ fpc' = "poll_loop"
    /\ UNCHANGED <<batchVars, singleVars, orchVars, proxyVars>>
    /\ UNCHANGED <<api_key, gemini_available, queries, sleeps, nNotDone,
                   nFail, lastResp, video_url, pollExit, fresult>>

\* Line 105 with retries <= max_retries: one poll too many.
PollSleepInclusive ==
    /\ fpc = "poll_loop"
    /\ retries <= max_retries
    /\ sleeps' = sleeps + 1
    /\ fpc' = "poll_get"
    /\ UNCHANGED <<batchVars, singleVars, orchVars, proxyVars>>
    /\ UNCHANGED <<api_key, gemini_available, submit, retries, queries, nNotDone,
                   nFail, lastResp, video_url, pollExit, fresult>>

\* Lines 105-106: the loop test holds; wait 5 seconds.
PollSleep ==
    /\ fpc = "poll_loop"
    /\ retries < max_retries
    /\ sleeps' = sleeps + 1
    /\ fpc' = "poll_get"
    /\ UNCHANGED <<batchVars, singleVars, orchVars, proxyVars>>
    /\ UNCHANGED <<api_key, gemini_available, submit, retries, queries, nNotDone,
                   nFail, lastResp, video_url, pollExit, fresult>>

\* Lines 105, 143-144: the loop test fails.
PollTimeout ==
    /\ fpc = "poll_loop"
    /\ retries >= max_retries
    /\ video_url' = PollTimeoutReturn
    /\ pollExit' = "timeout"
    /\ fpc' = "poll_returned"
    /\ UNCHANGED <<batchVars, singleVars, orchVars, proxyVars>>
    /\ UNCHANGED <<api_key, gemini_available, submit, retries, queries, sleeps, nNotDone,
                   nFail, lastResp, fresult>>

\* Lines 112-115 going straight to the next query, without the wait.
PollHttpErrorNoWait ==
    /\ fpc = "poll_get"
    /\ queries' = queries + 1
    /\ lastResp' = Resp("http_error", "")
    /\ nFail' = nFail + 1
    /\ retries' = retries + 1
    /\ fpc' = IF retries' < max_retries THEN "poll_get" ELSE "poll_loop"
    /\ UNCHANGED <<batchVars, singleVars, orchVars, proxyVars>>
    /\ UNCHANGED <<api_key, gemini_available, submit, sleeps, nNotDone, video_url,
                   pollExit, fresult>>

\* Lines 110-115: the query's response is no success.
PollHttpError ==
    /\ fpc = "poll_get"
    /\ queries' = queries + 1
    /\ lastResp' = Resp("http_error", "")
    /\ nFail' = nFail + 1
    /\ retries' = retries + 1
    /\ fpc' = "poll_loop"
    /\ UNCHANGED <<batchVars, singleVars, orchVars, proxyVars>>
    /\ UNCHANGED <<api_key, gemini_available, submit, sleeps, nNotDone, video_url,
                   pollExit, fresult>>

\* Lines 139-141 returning None instead of counting a retry.
PollExceptionReturns ==
    /\ fpc = "poll_get"
    /\ queries' = queries + 1
    /\ lastResp' = Resp("exception", "")
    /\ nFail' = nFail + 1
    /\ video_url' = None
    /\ pollExit' = "noartifact"
    /\ fpc' = "poll_returned"
    /\ UNCHANGED <<batchVars, singleVars, orchVars, proxyVars>>
    /\ UNCHANGED <<api_key, gemini_available, submit, retries, sleeps, nNotDone, fresult>>

\* Lines 110, 117-120, 139-141: the query or the decoding of its body raised.
PollException ==
    /\ fpc = "poll_get"
    /\ queries' = queries + 1
    /\ lastResp' = Resp("exception", "")
    /\ nFail' = nFail + 1
    /\ retries' = retries + 1
    /\ fpc' = "poll_loop"
    /\ UNCHANGED <<batchVars, singleVars, orchVars, proxyVars>>
    /\ UNCHANGED <<api_key, gemini_available, submit, sleeps, nNotDone, video_url,
                   pollExit, fresult>>

\* Lines 120, 137: the operation is not done.
PollNotDone ==
    /\ fpc = "poll_get"
    /\ queries' = queries + 1
    /\ lastResp' = Resp("not_done", "")
    /\ nNotDone' = nNotDone + 1
    /\ retries' = retries + 1
    /\ fpc' = "poll_loop"
    /\ UNCHANGED <<batchVars, singleVars, orchVars, proxyVars>>
    /\ UNCHANGED <<api_key, gemini_available, submit, sleeps, nFail, video_url,
                   pollExit, fresult>>

\* Line 131 preceded by retries += 1.
PollDoneUriCounts ==
    /\ fpc = "poll_get"
    /\ queries' = queries + 1
    /\ \E u \in Uris :
           /\ lastResp' = Resp("done_uri", u)
           /\ video_url' = UrlWithKey(u, api_key)
    /\ retries' = retries + 1
    /\ pollExit' = "uri"
    /\ fpc' = "poll_returned"
    /\ UNCHANGED <<batchVars, singleVars, orchVars, proxyVars>>
    /\ UNCHANGED <<api_key, gemini_available, submit, sleeps, nNotDone, nFail, fresult>>

\* Lines 120-131: done, with a video URI.
PollDoneUri ==
    /\ fpc = "poll_get"
    /\ queries' = queries + 1
    /\ \E u \in Uris :
           /\ lastResp' = Resp("done_uri", u)
           /\ video_url' = UrlWithKey(u, api_key)
    /\ pollExit' = "uri"
    /\ fpc' = "poll_returned"
    /\ UNCHANGED <<batchVars, singleVars, orchVars, proxyVars>>
    /\ UNCHANGED <<api_key, gemini_available, submit, retries, sleeps, nNotDone, nFail,
                   fresult>>

\* Line 135 missing: a done operation without URI falls through to line 137.
PollDoneNoArtifactRetries ==
    /\ fpc = "poll_get"
    /\ queries' = queries + 1
    /\ \E k \in NoArtifactKinds : lastResp' = Resp(k, "")
    /\ retries' = retries + 1
    /\ fpc' = "poll_loop"
    /\ UNCHANGED <<batchVars, singleVars, orchVars, proxyVars>>
    /\ UNCHANGED <<api_key, gemini_available, submit, sleeps, nNotDone, nFail, video_url,
                   pollExit, fresult>>

\* Lines 120-135: done, without a video URI.
PollDoneNoArtifact ==
    /\ fpc = "poll_get"
    /\ queries' = queries + 1
    /\ \E k \in NoArtifactKinds : lastResp' = Resp(k, "")
    /\ video_url' = PollNoArtifactReturn
    /\ pollExit' = "noartifact"
    /\ fpc' = "poll_returned"
    /\ UNCHANGED <<batchVars, singleVars, orchVars, proxyVars>>
    /\ UNCHANGED <<api_key, gemini_available, submit, retries, sleeps, nNotDone, nFail,
                   fresult>>

\* Lines 86-94: generate_video returns on what the polling returned.
FbReturn ==
    /\ fpc = "poll_returned"
    /\ fresult' = GenerateVideoResult(video_url)
    /\ fpc' = "returned"
    /\ UNCHANGED <<batchVars, singleVars, orchVars, proxyVars>>
    /\ UNCHANGED <<api_key, gemini_available, submit, retries, queries, sleeps, nNotDone,
                   nFail, lastResp, video_url, pollExit>>

\* Lines 19-20.
PollInit ==
    /\ api_key \in {<<>>, <<"k1">>, <<"k2">>}
    /\ gemini_available = (api_key # <<>>)
    /\ fpc = "call"
    /\ PollIdle

\* The request of a service that has its API key.
FbAvailableNext ==
    \/ FbSubmit
    \/ PostRejected
    \/ PostNoName
    \/ PostException
    \/ PostAccepted
    \/ PollSleep
    \/ PollTimeout
    \/ PollHttpError
    \/ PollException
    \/ PollNotDone
    \/ PollDoneUri
    \/ PollDoneNoArtifact
    \/ FbReturn

PollNext ==
    \/ FbUnavailable
    \/ FbAvailableNext

\* ======================================= OviService.generate_video
\* One call of OviService.generate_video (lines 76-176). Every fault is an
\* exception caught at lines 174-176 or an explicit return None.
OviFrame == UNCHANGED <<batchVars, pollVars, orchVars, proxyVars, gprompt>>

\* Lines 104-117 without the test of lines 89-90: the backend is invoked.
OviUnavailableInvokes ==
    /\ gpc = "call"
    /\ ~available
    /\ ginvoked' = ginvoked + 1
    /\ gpc' = "thread"
    /\ OviFrame
    /\ UNCHANGED <<gresult, gfault>>

\* Lines 89-90.
OviUnavailable ==
    /\ gpc = "call"
    /\ ~available
    /\ gresult' = None
    /\ gfault' = "unavailable"
    /\ gpc' = "returned"
    /\ OviFrame
    /\ UNCHANGED ginvoked

\* Lines 105-117: the ovi package imports; generate runs in a thread.
OviPackageCall ==
    /\ gpc = "call"
    /\ available
    /\ ginvoked' = ginvoked + 1
    /\ gpc' = "thread"
    /\ OviFrame
    /\ UNCHANGED <<gresult, gfault>>

\* Lines 105-107, 174-176: the import or OviGenerator() raises something
\* other than ImportError.
OviPackageInitFails ==
    /\ gpc = "call"
    /\ available
    /\ gresult' = None
    /\ gfault' = "generator_error"
    /\ gpc' = "returned"
    /\ OviFrame
    /\ UNCHANGED ginvoked

\* Lines 111-117 without the handler of lines 174-176: the exception of
\* generator.generate leaves generate_video.
OviThreadRaisesUncaught ==
    /\ gpc = "thread"
    /\ gfault' = "backend_error"
    /\ gpc' = "raised"
    /\ OviFrame
    /\ UNCHANGED <<gresult, ginvoked>>

\* Lines 111-117, 174-176: generator.generate raises.
OviThreadRaises ==
    /\ gpc = "thread"
    /\ gresult' = None
    /\ gfault' = "backend_error"
    /\ gpc' = "returned"
    /\ OviFrame
    /\ UNCHANGED ginvoked

\* Lines 111-117: generator.generate returns the path of the video.
OviThreadReturns ==
    /\ gpc = "thread"
    /\ gpc' = "read_pkg"
    /\ OviFrame
    /\ UNCHANGED <<gresult, gfault, ginvoked>>

\* Lines 120-128: the file is read and returned as base64.
OviPackageRead ==
    /\ gpc = "read_pkg"
    /\ gresult' = OviSuccess(gprompt)
    /\ gpc' = "returned"
    /\ OviFrame
    /\ UNCHANGED <<gfault, ginvoked>>

\* Lines 120-121, 174-176: the file is missing or unreadable.
OviPackageReadFails ==
    /\ gpc = "read_pkg"
    /\ gresult' = None
    /\ gfault' = "read_error"
    /\ gpc' = "returned"
    /\ OviFrame
    /\ UNCHANGED ginvoked

\* Lines 130-150: ImportError; the CLI process is started.
OviCliSpawn ==
    /\ gpc = "call"
    /\ available
    /\ ginvoked' = ginvoked + 1
    /\ gpc' = "proc"
    /\ OviFrame
    /\ UNCHANGED <<gresult, gfault>>

\* Lines 146-150, 174-176: ImportError, and the process cannot be started.
OviCliSpawnFails ==
    /\ gpc = "call"
    /\ available
    /\ gresult' = None
    /\ gfault' = "spawn_error"
    /\ gpc' = "returned"
    /\ OviFrame
    /\ UNCHANGED ginvoked

\* Lines 152-156: the process exits with a non-zero code.
OviCliExitNonZero ==
    /\ gpc = "proc"
    /\ gresult' = None
    /\ gfault' = "nonzero_exit"
    /\ gpc' = "returned"
    /\ OviFrame
    /\ UNCHANGED ginvoked

\* Lines 152-159: the process exits with 0 and prints the output path.
OviCliExitZero ==
    /\ gpc = "proc"
    /\ gpc' = "read_cli"
    /\ OviFrame
    /\ UNCHANGED <<gresult, gfault, ginvoked>>

\* Lines 161, 172: the printed path does not exist.
OviCliOutputMissing ==
    /\ gpc = "read_cli"
    /\ gresult' = None
    /\ gfault' = "missing_output"
    /\ gpc' = "returned"
    /\ OviFrame
    /\ UNCHANGED ginvoked

\* Lines 161-170: the file is read and returned as base64.
OviCliRead ==
    /\ gpc = "read_cli"
    /\ gresult' = OviSuccess(gprompt)
    /\ gpc' = "returned"
    /\ OviFrame
    /\ UNCHANGED <<gfault, ginvoked>>

\* Lines 162-163, 174-176: the file cannot be read.
OviCliReadFails ==
    /\ gpc = "read_cli"
    /\ gresult' = None
    /\ gfault' = "read_error"
    /\ gpc' = "returned"
    /\ OviFrame
    /\ UNCHANGED ginvoked

\* The call's own state at its start.
OviCallStart ==
    /\ gpc = "call"
    /\ gresult = None
    /\ gfault = "none"
    /\ ginvoked = 0

\* Lines 18-21, then one call with some prompt.
OviCallInit ==
    /\ available \in BOOLEAN
    /\ gprompt \in {1, 2}
    /\ OviCallStart

\* The call of an available service.
OviAvailableNext ==
    \/ OviPackageCall
    \/ OviPackageInitFails
    \/ OviThreadRaises
    \/ OviThreadReturns
    \/ OviPackageRead
    \/ OviPackageReadFails
    \/ OviCliSpawn
    \/ OviCliSpawnFails
    \/ OviCliExitNonZero
    \/ OviCliExitZero
    \/ OviCliOutputMissing
    \/ OviCliRead
    \/ OviCliReadFails

OviNext ==
    \/ OviUnavailable
    \/ OviAvailableNext

\* ======================================================= the proxies
\* The Wavespeed proxy, in its two implementations: backend/main.py and
\* backend_wavespeed_proxy_example.py. One request is given to the same
\* endpoint of both, with the same reaction of the upstream.
Impls == {"main", "example"}
Creates == {"create_wavespeed_task", "create_wavespeed_image_task"}
Gets == {"get_wavespeed_task", "get_wavespeed_image_task_result"}
Endpoints == Creates \cup Gets

\* The body of a POST: a JSON object, a JSON object whose prompt is null,
\* a JSON array, or no JSON at all. A GET has none.
RequestBodies == {"object", "object_null_prompt", "array", "invalid"}

\* What the upstream does: no answer in 30 s, a failed connection, or a
\* response with a status and a body. Bodies: {"id": ...}, {"data": null},
\* {"id": ..., "data": null}, a JSON array, or no JSON.
UpstreamStatuses == {200, 201, 404, 429, 500, 503}
UpstreamBodies == {"obj_id", "obj_data_null", "obj_id_data_null", "array", "not_json"}
Upstream(kind, status, body) == [kind |-> kind, status |-> status, body |-> body]
Upstreams ==
    {Upstream("timeout", 0, "none"), Upstream("error", 0, "none")}
    \cup {Upstream("response", st, b) : st \in UpstreamStatuses, b \in UpstreamBodies}

Requests ==
    {[endpoint |-> e, body |-> b, upstream |-> u] :
        e \in Creates, b \in RequestBodies, u \in Upstreams}
    \cup {[endpoint |-> e, body |-> "none", upstream |-> u] :
        e \in Gets, u \in Upstreams}

\* The response FastAPI makes of an HTTPException, and of a returned value.
HttpError(status_code, detail) == [status |-> status_code, body |-> <<"detail", detail>>]
Returned(result) == [status |-> 200, body |-> result]
NoResponse == [status |-> 0, body |-> "none"]

\* The exceptions of the try block.
TimeoutException == [exc |-> "TimeoutException", status_code |-> 0]
HTTPException(status_code) == [exc |-> "HTTPException", status_code |-> status_code]
OtherException == [exc |-> "Exception", status_code |-> 0]

\* The except clauses. main.py lines 157-165 (and 206-211, 258-265,
\* 300-307): TimeoutException to 504, HTTPException re-raised, any other to
\* 500. The example, lines 95-98 (127-130, 163-166, 195-198): TimeoutException
\* to 504, any other Exception to 500, and HTTPException is an Exception.
Handlers(i, e) ==
    IF e.exc = "TimeoutException" THEN HttpError(504, "timeout")
    ELSE IF e.exc = "HTTPException" /\ i = "main"
         THEN HttpError(e.status_code, "upstream")
         ELSE HttpError(500, "exception")

\* request.json() and, in main.py, the log line that reads body.get('model')
\* and len(body.get('prompt', '')) (lines 131-132, 237-238).
BodyRaises(i, body) ==
    \/ body = "invalid"
    \/ i = "main" /\ body \in {"array", "object_null_prompt"}

\* response.json(), and in main.py the task_id of the log line: line 152
\* result.get("task_id") or result.get("id") or result.get("data", {}).get("id"),
\* line 251 result.get("data", {}).get("id") or result.get("id").
ResultRaises(i, endpoint, body) ==
    \/ body = "not_json"
    \/ /\ i = "main"
       /\ endpoint = "create_wavespeed_task"
       /\ body \in {"array", "obj_data_null"}
    \/ /\ i = "main"
       /\ endpoint = "create_wavespeed_image_task"
       /\ body \in {"array", "obj_data_null", "obj_id_data_null"}

Respond(i, r) ==
    /\ presp' = [presp EXCEPT ![i] = r]
    /\ ppc' = [ppc EXCEPT ![i] = "done"]

ProxyFrame == UNCHANGED <<batchVars, pollVars, singleVars, orchVars, wkey, preq>>

\* if not WAVESPEED_API_KEY: raise HTTPException(500), outside the try.
ProxyNoKey(i) ==
    /\ ppc[i] = "start"
    /\ wkey = <<>>
    /\ Respond(i, HttpError(500, "not configured"))
    /\ ProxyFrame
    /\ UNCHANGED psent

\* A POST whose body cannot be read.
ProxyBodyFails(i) ==
    /\ ppc[i] = "start"
    /\ wkey # <<>>
    /\ preq.endpoint \in Creates
    /\ BodyRaises(i, preq.body)
    /\ Respond(i, Handlers(i, OtherException))
    /\ ProxyFrame
    /\ UNCHANGED psent

\* client.post / client.get: the request goes upstream.
ProxySend(i) ==
    /\ ppc[i] = "start"
    /\ wkey # <<>>
    /\ preq.endpoint \in Creates => ~BodyRaises(i, preq.body)
    /\ psent' = [psent EXCEPT ![i] = @ + 1]
    /\ ppc' = [ppc EXCEPT ![i] = "sent"]
    /\ ProxyFrame
    /\ UNCHANGED presp

\* httpx.TimeoutException.
ProxyTimeout(i) ==
    /\ ppc[i] = "sent"
    /\ preq.upstream.kind = "timeout"
    /\ Respond(i, Handlers(i, TimeoutException))
    /\ ProxyFrame
    /\ UNCHANGED psent

\* Any other failure of the request.
ProxyNetworkError(i) ==
    /\ ppc[i] = "sent"
    /\ preq.upstream.kind = "error"
    /\ Respond(i, Handlers(i, OtherException))
    /\ ProxyFrame
    /\ UNCHANGED psent

\* if response.status_code >= 400: raise HTTPException(response.status_code),
\* inside the try.
ProxyUpstreamError(i) ==
    /\ ppc[i] = "sent"
    /\ preq.upstream.kind = "response"
    /\ preq.upstream.status >= 400
    /\ Respond(i, Handlers(i, HTTPException(preq.upstream.status)))
    /\ ProxyFrame
    /\ UNCHANGED psent

\* return response.json() (main.py: after the task_id of the log line).
ProxyRelay(i) ==
    /\ ppc[i] = "sent"
    /\ preq.upstream.kind = "response"
    /\ preq.upstream.status < 400
    /\ Respond(i, IF ResultRaises(i, preq.endpoint, preq.upstream.body)
                  THEN Handlers(i, OtherException)
                  ELSE Returned(preq.upstream.body))
    /\ ProxyFrame
    /\ UNCHANGED psent

\* No request is at the proxies.
ProxyIdle ==
    /\ wkey = <<>>
    /\ preq = [endpoint |-> "none", body |-> "none", upstream |-> Upstream("none", 0, "none")]
    /\ ppc = [i \in Impls |-> "idle"]
    /\ presp = [i \in Impls |-> NoResponse]
    /\ psent = [i \in Impls |-> 0]

ProxyInit ==
    /\ wkey \in {<<>>, <<"wk">>}
    /\ preq \in Requests
    /\ ppc = [i \in Impls |-> "start"]
    /\ presp = [i \in Impls |-> NoResponse]
    /\ psent = [i \in Impls |-> 0]

ProxyNext ==
    \/ \E i \in Impls : ProxyNoKey(i)
    \/ \E i \in Impls : ProxyBodyFails(i)
    \/ \E i \in Impls : ProxySend(i)
    \/ \E i \in Impls : ProxyTimeout(i)
    \/ \E i \in Impls : ProxyNetworkError(i)
    \/ \E i \in Impls : ProxyUpstreamError(i)
    \/ \E i \in Impls : ProxyRelay(i)

\* ----------------------------------------------------- specifications
\* No batch is in progress.
BatchQuiet ==
    /\ num_gpus = 0
    /\ prompts = <<>>
    /\ env = EnvAbsent
    /\ env0 = EnvAbsent
    /\ bpc = "idle"
    /\ groups = <<>>
    /\ tasks = <<>>
    /\ unit = [u \in Gpus |-> NoUnit]
    /\ running = NoTask
    /\ seq = [results |-> <<>>, inflight |-> FALSE]
    /\ out = <<>>
    /\ handed = [p \in 1 .. Len(prompts) |-> <<>>]

BatchIdle ==
    /\ available = FALSE
    /\ BatchQuiet

\* No fallback request is in progress.
FallbackIdle ==
    /\ api_key = <<>>
    /\ gemini_available = FALSE
    /\ fpc = "idle"
    /\ PollIdle

\* No single generation of the primary is in progress.
SingleIdle ==
    /\ gprompt = 1
    /\ gpc = "idle"
    /\ gresult = None
    /\ gfault = "none"
    /\ ginvoked = 0

\* No orchestrator request is in progress.
OrchIdle ==
    /\ okind = "none"
    /\ opc = "idle"
    /\ oresult = None
    /\ oerrors = <<>>
    /\ fbCalls = 0

\* One call of OviService.generate_videos_batch.
InitBatch == BatchInit /\ FallbackIdle /\ SingleIdle /\ OrchIdle /\ ProxyIdle
SpecBatch == InitBatch /\ [][BatchNext]_vars

\* One call of GeminiFallback.generate_video.
InitPoll == PollInit /\ BatchIdle /\ SingleIdle /\ OrchIdle /\ ProxyIdle
SpecPoll == InitPoll /\ [][PollNext]_vars

\* The event loop runs every ready coroutine, and every await of the
\* fallback ends: the sleep after 5 s, the requests by their timeouts
\* (lines 66, 109).
SpecPollFair == SpecPoll /\ WF_vars(PollNext)

\* One call of generate_video of either provider.
InitProviders ==
    \/ OviCallInit /\ BatchQuiet /\ FallbackIdle /\ OrchIdle /\ ProxyIdle
    \/ PollInit /\ BatchIdle /\ SingleIdle /\ OrchIdle /\ ProxyIdle
ProvidersNext == OviNext \/ PollNext
SpecProviders == InitProviders /\ [][ProvidersNext]_vars

\* One call of any of the three operations of the providers:
\* generate_video of either, or generate_videos_batch.
InitCalls == InitProviders \/ InitBatch
CallsNext == ProvidersNext \/ BatchNext
SpecCalls == InitCalls /\ [][CallsNext]_vars

\* ======================================================= orchestrator
\* The orchestrator of the two providers: single-request policy and batch
\* policy. It reads the availability flags and calls generate_video and
\* generate_videos_batch of the services modelled above.

\* A new call of GeminiFallback.generate_video and its locals.
CallFallback ==
    /\ fpc' = "call"
    /\ retries' = 0
    /\ queries' = 0
    /\ sleeps' = 0
    /\ nNotDone' = 0
    /\ nFail' = 0
    /\ lastResp' = NoResp
    /\ video_url' = None
    /\ pollExit' = "none"
    /\ fresult' = None
    /\ submit' = "none"
    /\ fbCalls' = fbCalls + 1
    /\ UNCHANGED <<api_key, gemini_available>>

\* Single request: the primary is available and is tried first.
OrchTryPrimary ==
    /\ okind = "single"
    /\ opc = "start"
    /\ available
    /\ gpc' = "call"
    /\ opc' = "primary"
    /\ UNCHANGED <<batchVars, pollVars>>
    /\ UNCHANGED <<gprompt, gresult, gfault, ginvoked>>
    /\ UNCHANGED <<proxyVars, okind, oresult, oerrors, fbCalls>>

\* Batch request: the primary is available; its batch path is preferred.
OrchTryPrimaryBatch ==
    /\ okind = "batch"
    /\ opc = "start"
    /\ available
    /\ bpc' = "call"
    /\ opc' = "primary"
    /\ UNCHANGED <<pollVars, singleVars>>
    /\ UNCHANGED <<available, num_gpus, prompts, handed, env, env0, groups, tasks, unit,
                   running, seq, out>>
    /\ UNCHANGED <<proxyVars, okind, oresult, oerrors, fbCalls>>

\* The primary is not available: it is not called.
OrchSkipPrimary ==
    /\ opc = "start"
    /\ ~available
    /\ opc' = "after_primary"
    /\ UNCHANGED <<batchVars, pollVars, singleVars>>
    /\ UNCHANGED <<proxyVars, okind, oresult, oerrors, fbCalls>>

\* The primary's success goes on to the fallback all the same.
OrchPrimarySuccessTriesFallback ==
    /\ okind = "single"
    /\ opc = "primary"
    /\ gpc = "returned"
    /\ gresult # None
    /\ opc' = "after_primary"
    /\ UNCHANGED <<batchVars, pollVars, singleVars>>
    /\ UNCHANGED <<proxyVars, okind, oresult, oerrors, fbCalls>>

\* On Success of the primary, return immediately.
OrchPrimarySuccess ==
    /\ okind = "single"
    /\ opc = "primary"
    /\ gpc = "returned"
    /\ gresult # None
    /\ oresult' = gresult
    /\ opc' = "done"
    /\ UNCHANGED <<batchVars, pollVars, singleVars>>
    /\ UNCHANGED <<proxyVars, okind, oerrors, fbCalls>>

\* The primary's Failure is reported as the outcome.
OrchPrimaryFailureTerminal ==
    /\ okind = "single"
    /\ opc = "primary"
    /\ gpc = "returned"
    /\ gresult = None
    /\ oerrors' = <<"primary failed">>
    /\ opc' = "error"
    /\ UNCHANGED <<batchVars, pollVars, singleVars>>
    /\ UNCHANGED <<proxyVars, okind, oresult, fbCalls>>

\* On Failure of the primary, fall through to the fallback.
OrchPrimaryFailure ==
    /\ okind = "single"
    /\ opc = "primary"
    /\ gpc = "returned"
    /\ gresult = None
    /\ opc' = "after_primary"
    /\ UNCHANGED <<batchVars, pollVars, singleVars>>
    /\ UNCHANGED <<proxyVars, okind, oresult, oerrors, fbCalls>>

\* The primary's batch call returned its list: that is the result.
OrchPrimaryBatchReturn ==
    /\ okind = "batch"
    /\ opc = "primary"
    /\ bpc = "returned"
    /\ oresult' = out
    /\ opc' = "done"
    /\ UNCHANGED <<batchVars, pollVars, singleVars>>
    /\ UNCHANGED <<proxyVars, okind, oerrors, fbCalls>>

\* Single request: the fallback is available and is called.
OrchTryFallback ==
    /\ okind = "single"
    /\ opc = "after_primary"
    /\ gemini_available
    /\ CallFallback
    /\ opc' = "fallback"
    /\ UNCHANGED <<batchVars, singleVars>>
    /\ UNCHANGED <<proxyVars, okind, oresult, oerrors>>

\* The fallback's Success is the result.
OrchFallbackSuccess ==
    /\ okind = "single"
    /\ opc = "fallback"
    /\ fpc = "returned"
    /\ fresult # None
    /\ oresult' = fresult
    /\ opc' = "done"
    /\ UNCHANGED <<batchVars, pollVars, singleVars>>
    /\ UNCHANGED <<proxyVars, okind, oerrors, fbCalls>>

\* The fallback's Failure is handed to the caller as the result.
OrchFallbackFailsSilently ==
    /\ okind = "single"
    /\ opc = "fallback"
    /\ fpc = "returned"
    /\ fresult = None
    /\ oresult' = fresult
    /\ opc' = "done"
    /\ UNCHANGED <<batchVars, pollVars, singleVars>>
    /\ UNCHANGED <<proxyVars, okind, oerrors, fbCalls>>

\* Both providers failed: a terminal error.
OrchFallbackFails ==
    /\ okind = "single"
    /\ opc = "fallback"
    /\ fpc = "returned"
    /\ fresult = None
    /\ oerrors' = <<"all providers failed">>
    /\ opc' = "error"
    /\ UNCHANGED <<batchVars, pollVars, singleVars>>
    /\ UNCHANGED <<proxyVars, okind, oresult, fbCalls>>

\* No provider is left to try: a terminal error.
OrchNoProvider ==
    /\ opc = "after_primary"
    /\ ~gemini_available
    /\ oerrors' = <<"no provider available">>
    /\ opc' = "error"
    /\ UNCHANGED <<batchVars, pollVars, singleVars>>
    /\ UNCHANGED <<proxyVars, okind, oresult, fbCalls>>

\* Batch request without the primary: the next item goes to the fallback.
OrchBatchFallbackCall ==
    /\ okind = "batch"
    /\ opc \in {"after_primary", "fallback_batch"}
    /\ gemini_available
    /\ Len(oresult) < Len(prompts)
    /\ CallFallback
    /\ opc' = "fallback_item"
    /\ UNCHANGED <<batchVars, singleVars>>
    /\ UNCHANGED <<proxyVars, okind, oresult, oerrors>>

\* The item's result is collected; a failed item goes to the error list.
OrchBatchFallbackItem ==
    /\ okind = "batch"
    /\ opc = "fallback_item"
    /\ fpc = "returned"
    /\ oresult' = Append(oresult, fresult)
    /\ oerrors' = IF fresult = None THEN Append(oerrors, Len(oresult)) ELSE oerrors
    /\ opc' = "fallback_batch"
    /\ UNCHANGED <<batchVars, pollVars, singleVars>>
    /\ UNCHANGED <<proxyVars, okind, fbCalls>>

\* Every item has been through the fallback.
OrchBatchFallbackDone ==
    /\ okind = "batch"
    /\ opc = "fallback_batch"
    /\ Len(oresult) = Len(prompts)
    /\ opc' = "done"
    /\ UNCHANGED <<batchVars, pollVars, singleVars>>
    /\ UNCHANGED <<proxyVars, okind, oresult, oerrors, fbCalls>>

\* The services as constructed, and one request: a single prompt, or a
\* batch of MaxOrchBatch prompts on one or two GPUs.
OrchInit ==
    /\ okind \in {"single", "batch"}
    /\ available \in BOOLEAN
    /\ api_key \in {<<>>, <<"k1">>}
    /\ gemini_available = (api_key # <<>>)
    /\ num_gpus \in (IF okind = "batch" THEN {1, 2} ELSE {0})
    /\ prompts = (IF okind = "batch" THEN DistinctPrompts(MaxOrchBatch) ELSE <<>>)
    /\ env = EnvAbsent
    /\ env0 = env
    /\ bpc = "idle"
    /\ groups = <<>>
    /\ tasks = <<>>
    /\ unit = [u \in Gpus |-> NoUnit]
    /\ running = NoTask
    /\ seq = [results |-> <<>>, inflight |-> FALSE]
    /\ out = <<>>
    /\ handed = [p \in 1 .. Len(prompts) |-> <<>>]
    /\ fpc = "idle"
    /\ PollIdle
    /\ SingleIdle
    /\ opc = "start"
    /\ oresult = (IF okind = "batch" THEN <<>> ELSE None)
    /\ oerrors = <<>>
    /\ fbCalls = 0
    /\ ProxyIdle

OrchNext ==
    \/ OrchTryPrimary
    \/ OrchTryPrimaryBatch
    \/ OrchSkipPrimary
    \/ OrchPrimarySuccess
    \/ OrchPrimaryFailure
    \/ OrchPrimaryBatchReturn
    \/ OrchTryFallback
    \/ OrchFallbackSuccess
    \/ OrchFallbackFails
    \/ OrchNoProvider
    \/ OrchBatchFallbackCall
    \/ OrchBatchFallbackItem
    \/ OrchBatchFallbackDone
    \/ OviAvailableNext
    \/ FbAvailableNext
    \/ BatchAvailableNext

\* One request to the orchestrator.
SpecOrch == OrchInit /\ [][OrchNext]_vars

\* One request to the same endpoint of both proxies.
InitProxy == ProxyInit /\ BatchIdle /\ FallbackIdle /\ SingleIdle /\ OrchIdle
SpecProxy == InitProxy /\ [][ProxyNext]_vars

\* ------------------------------------------------------------ claims
MultiGpu == available /\ num_gpus > 1

\* Closed form of the partition: size and first index of gpu_id's slice.
SliceSize(gpu_id) ==
    (Len(prompts) \div num_gpus) + (IF gpu_id < Len(prompts) % num_gpus THEN 1 ELSE 0)
SliceStart(gpu_id) ==
    gpu_id * (Len(prompts) \div num_gpus)
    + (IF gpu_id < Len(prompts) % num_gpus THEN gpu_id ELSE Len(prompts) % num_gpus)

RECURSIVE Concat(_)
Concat(ss) == IF ss = <<>> THEN <<>> ELSE Head(ss) \o Concat(Tail(ss))

\* C1: generate_videos_batch returns a list of exactly len(prompts) entries,
\* whatever the availability, the GPU count and the failures of items and
\* of whole unit tasks.
C1_LengthPreserved == bpc = "returned" => Len(out) = Len(prompts)

C1_Witness ==
    /\ bpc = "returned"
    /\ MultiGpu
    /\ Len(prompts) >= 3
    /\ \E u, v \in Gpus : unit[u].pc = "failed" /\ unit[v].pc = "done"
    /\ Len(out) = Len(prompts)

\* C2: when exactly one unit's task ends with an exception and the others
\* complete, the returned list holds None at the positions of that unit's
\* group and, at every other unit's positions, that unit's own results.
C2_FailedUnitIsolated ==
    \A i \in Gpus :
        ( /\ bpc = "returned"
          /\ MultiGpu
          /\ unit[i].pc = "failed"
          /\ \A j \in Gpus \ {i} : unit[j].pc \in {"done", "notask"} )
        => \A j \in Gpus : \A k \in 1 .. Len(groups[j + 1]) :
               /\ SliceStart(j) + k <= Len(out)
               /\ out[SliceStart(j) + k] = IF j = i THEN None ELSE unit[j].results[k]

\* C3: while unit u is inside a generation call of the multi-GPU path,
\* CUDA_VISIBLE_DEVICES is str(u).
C3_EnvIsUnitDuringGeneration ==
    \A u \in Gpus : (bpc = "gather" /\ unit[u].pc = "ingen") => env = Str(u)

\* C4: once a multi-GPU batch has returned, CUDA_VISIBLE_DEVICES is what it
\* was when the batch was called (same value, or absent).
C4_EnvRestoredAfterBatch == (bpc = "returned" /\ MultiGpu) => env = env0

\* C5: the multi-GPU partition gives gpu_id the contiguous slice of size
\* floor(N/U) + 1 if gpu_id < N mod U and floor(N/U) otherwise; the slices
\* follow one another in gpu_id order and concatenate to the prompts.
C5_Partition ==
    (MultiGpu /\ bpc \in {"gather", "returned"}) =>
        /\ Len(groups) = num_gpus
        /\ \A i \in Gpus :
               /\ Len(groups[i + 1]) = SliceSize(i)
               /\ groups[i + 1] = SubSeq(prompts, SliceStart(i) + 1, SliceStart(i) + SliceSize(i))
               /\ i + 1 \in Gpus => SliceStart(i + 1) = SliceStart(i) + SliceSize(i)
        /\ SliceStart(0) = 0
        /\ SliceStart(num_gpus - 1) + SliceSize(num_gpus - 1) = Len(prompts)
        /\ Concat(groups) = prompts

C5_Witness ==
    /\ MultiGpu
    /\ bpc = "gather"
    /\ Len(prompts) > num_gpus
    /\ Len(prompts) % num_gpus # 0
    /\ prompts[1] # prompts[2]
    /\ Len(groups[1]) = Len(groups[num_gpus]) + 1

FailedKinds == {"http_error", "exception"}
DoneKinds == {"done_uri"} \cup NoArtifactKinds
Queried == queries' = queries + 1

RetriesGrow ==
    /\ retries' >= retries
    /\ Queried => retries < max_retries

\* C6: polling terminates; retries only grows and stays in 0..max_retries;
\* at most max_retries status queries are issued, none once retries has
\* reached max_retries.
C6_PollBudget ==
    /\ [](/\ retries \in 0 .. max_retries
          /\ queries <= max_retries
          /\ fpc = "poll_get" => retries < max_retries)
    /\ [][RetriesGrow]_vars
    /\ <>(fpc = "returned")

C6_Witness ==
    /\ fpc = "returned"
    /\ pollExit = "timeout"
    /\ queries = max_retries
    /\ nFail > 0
    /\ nNotDone > 0

DoneEndsPolling ==
    (Queried /\ lastResp'.kind \in DoneKinds) =>
        /\ fpc' = "poll_returned"
        /\ video_url' = IF lastResp'.kind = "done_uri"
                        THEN UrlWithKey(lastResp'.uri, api_key) ELSE None

NoQueryAfterReturn ==
    (fpc \in {"poll_returned", "returned"}) =>
        (queries' = queries /\ sleeps' = sleeps /\ lastResp' = lastResp)

\* C7: a status query answered "done" ends the polling at that query, with
\* the URL when the operation carries a URI and None when it carries none;
\* no query follows, and generate_video returns the dict for the URL and
\* None otherwise.
C7_CompleteTerminates ==
    /\ [][DoneEndsPolling]_vars
    /\ [][NoQueryAfterReturn]_vars
    /\ []((fpc = "returned" /\ lastResp.kind = "done_uri") =>
            fresult = [video_url |-> UrlWithKey(lastResp.uri, api_key),
                       provider |-> "gemini"])
    /\ []((fpc = "returned" /\ lastResp.kind \in NoArtifactKinds) => fresult = None)

C7_Witness ==
    /\ fpc = "returned"
    /\ lastResp.kind = "malformed"
    /\ nNotDone = 1
    /\ queries = 2
    /\ fresult = None

FailedQueryCounts ==
    (Queried /\ lastResp'.kind \in FailedKinds) =>
        /\ retries' = retries + 1
        /\ fpc' = "poll_loop"
        /\ pollExit' = "none"
        /\ video_url' = video_url

\* C8: a failed status query adds one to retries and leaves the polling
\* running: the next wait is taken while retries < max_retries, and a later
\* "done" with a URI still gives the dict of the URL.
C8_FailedQueryContinues ==
    /\ [][FailedQueryCounts]_vars
    /\ []((fpc = "poll_loop" /\ retries < max_retries) => ENABLED PollSleep)
    /\ []((fpc = "returned" /\ nFail > 0 /\ lastResp.kind = "done_uri") =>
            (fresult # None /\ fresult.provider = "gemini"))

C8_Witness ==
    /\ fpc = "returned"
    /\ nFail >= 2
    /\ nNotDone = 0
    /\ lastResp.kind = "done_uri"
    /\ fresult # None

C10_AttemptsRecorded ==
    (fpc = "returned" /\ nFail = 0 /\ lastResp.kind = "done_uri") =>
        /\ fresult = [video_url |-> UrlWithKey(lastResp.uri, api_key),
                      provider |-> "gemini"]
        /\ retries = nNotDone + 1

\* C10 as amended: k "not done" answers followed by "done" with a URI give
\* the gemini dict after k + 1 status queries, with retries = k: the query
\* that finds the operation done is not counted.
C10_QueriesIssued ==
    (fpc = "returned" /\ nFail = 0 /\ lastResp.kind = "done_uri") =>
        /\ fresult = [video_url |-> UrlWithKey(lastResp.uri, api_key),
                      provider |-> "gemini"]
        /\ nNotDone < max_retries
        /\ queries = nNotDone + 1
        /\ retries = nNotDone

C10_Witness ==
    /\ fpc = "returned"
    /\ nFail = 0
    /\ nNotDone = 2
    /\ lastResp.kind = "done_uri"
    /\ queries = 3
    /\ retries = 2
    /\ fresult # None

\* C11: every status query, the first one included, comes after a wait of
\* its own: a query is issued only from a state where one more wait than
\* queries has been done, and nowhere else do the two counts differ.
C11_WaitBeforeQuery ==
    sleeps = queries + (IF fpc = "poll_get" THEN 1 ELSE 0)

C11_Witness ==
    /\ fpc = "poll_get"
    /\ lastResp.kind = "exception"
    /\ nFail >= 2
    /\ nNotDone >= 1
    /\ queries = 3
    /\ sleeps = 4

\* ---------------------------------------------------- provider results
\* The faults of one call of each provider.
OviFaulted == gfault # "none"
SubmitFaults == {"rejected", "noname", "exception"}
PollFaults == {"noartifact", "timeout"}
GeminiFaulted ==
    \/ submit \in SubmitFaults
    \/ pollExit \in PollFaults
    \/ ~gemini_available /\ fpc = "returned"

\* A result that carries a reason, and the artifact forms of a result.
HasReason(r) == "reason" \in DOMAIN r
Forms(r) == {f \in {"video_base64", "video_url"} : f \in DOMAIN r /\ r[f] # None}
IsFailure(r) == r = None
IsSuccess(r) == Forms(r) # {}

C13_ResultShape ==
    /\ gpc = "returned" =>
           /\ IsFailure(gresult) # IsSuccess(gresult)
           /\ IsSuccess(gresult) =>
                  /\ Forms(gresult) = {"video_base64"}
                  /\ gresult.provider = "ovi"
                  /\ ginvoked = 1
    /\ fpc = "returned" =>
           /\ IsFailure(fresult) # IsSuccess(fresult)
           /\ IsSuccess(fresult) =>
                  /\ Forms(fresult) = {"video_url"}
                  /\ fresult.provider = "gemini"
                  /\ queries >= 1

C13_Witness ==
    /\ fpc = "returned"
    /\ pollExit = "uri"
    /\ IsSuccess(fresult)
    /\ fresult.provider = "gemini"
    /\ nFail >= 1

\* --------------------------------------------------------- orchestrator
PrimaryFailed == gpc = "returned" /\ gresult = None
FallbackFailed == fpc = "returned" /\ fresult = None
OrchEnded == opc \in {"done", "error"}
AllSucceeded(results) == \A k \in 1 .. Len(results) : results[k] # None

\* C14: single request, both providers available: once the primary has
\* failed, the request ends only after the fallback has been called and
\* has returned; what it returns then is the fallback's result, and the
\* only terminal error is the failure of the fallback as well.
C14_FailoverToFallback ==
    (okind = "single" /\ available /\ gemini_available /\ PrimaryFailed) =>
        /\ opc \in {"primary", "after_primary", "fallback", "done", "error"}
        /\ opc \in {"fallback", "done", "error"} => fbCalls = 1
        /\ OrchEnded => fpc = "returned"
        /\ opc = "done" => oresult = fresult /\ IsSuccess(oresult)
        /\ opc = "error" => FallbackFailed

\* Scenario C: the backend exits non-zero, the fallback succeeds.
C14_Witness ==
    /\ okind = "single"
    /\ opc = "done"
    /\ gfault = "nonzero_exit"
    /\ PrimaryFailed
    /\ fbCalls = 1
    /\ oresult = fresult
    /\ IsSuccess(oresult)
    /\ oresult.provider = "gemini"

\* C15: while the primary is available and has succeeded for every item
\* (the single prompt, or every prompt of the batch), the fallback has not
\* been called; while the primary is unavailable and the fallback is
\* available, nothing of the primary has been called or invoked, and a
\* single request that ends well returns the fallback's result.
C15_FallbackLastResort ==
    /\ (okind = "single" /\ available /\ gpc = "returned" /\ IsSuccess(gresult)) =>
           fbCalls = 0 /\ fpc = "idle"
    /\ (okind = "batch" /\ available /\ bpc = "returned" /\ AllSucceeded(out)) =>
           fbCalls = 0 /\ fpc = "idle"
    /\ (~available /\ gemini_available) =>
           /\ gpc = "idle" /\ ginvoked = 0
           /\ bpc = "idle" /\ \A u \in Gpus : unit[u].pc = "notask"
           /\ OrchEnded => fbCalls >= 1
           /\ (okind = "single" /\ opc = "done") => oresult = fresult

C15_Witness ==
    /\ okind = "batch"
    /\ opc = "done"
    /\ available
    /\ gemini_available
    /\ num_gpus = 2
    /\ Len(oresult) = MaxOrchBatch
    /\ AllSucceeded(oresult)
    /\ fbCalls = 0

\* C16: a single request for which no provider is available, or for which
\* every available provider failed, ends in a terminal error: the caller
\* gets an error, and a result only if it is a Success.
C16_TerminalError ==
    okind = "single" =>
        /\ (OrchEnded /\ (~available \/ PrimaryFailed)
                      /\ (~gemini_available \/ FallbackFailed)) =>
               opc = "error" /\ oerrors # <<>> /\ oresult = None
        /\ opc = "done" => IsSuccess(oresult)

C16_Witness ==
    /\ okind = "single"
    /\ opc = "error"
    /\ available
    /\ gfault = "missing_output"
    /\ gemini_available
    /\ pollExit = "timeout"
    /\ oerrors # <<>>

\* ------------------------------------------------- order and scheduling
AllTasksDone == \A i \in 1 .. Len(tasks) : unit[tasks[i]].pc = "done"
Sequential == available /\ num_gpus <= 1

\* C17: when the multi-GPU batch returns with every unit task completed,
\* entry k of the list is what generate_video gave for prompt k: the list
\* has one entry per prompt, each an outcome of its own prompt, and each
\* unit's results lie at the positions of its slice.
C17_OrderPreserved ==
    (bpc = "returned" /\ MultiGpu /\ AllTasksDone) =>
        /\ Len(out) = Len(prompts)
        /\ \A k \in 1 .. Len(prompts) : out[k] \in GenerateVideoOutcomes(prompts[k])
        /\ \A j \in Gpus : \A k \in 1 .. Len(groups[j + 1]) :
               out[SliceStart(j) + k] = unit[j].results[k]

\* Scenario A: 4 prompts on 2 GPUs, all generated.
C17_Witness ==
    /\ bpc = "returned"
    /\ available
    /\ num_gpus = 2
    /\ prompts = DistinctPrompts(4)
    /\ groups = <<DistinctPrompts(2), <<3, 4>>>>
    /\ out = [k \in 1 .. 4 |-> OviSuccess(k)]

\* A call of the sequential loop that returns leaves the loop running, with
\* one more result.
SeqCallReturns ==
    (bpc = "seq" /\ seq.inflight /\ ~seq'.inflight) =>
        /\ bpc' = "seq"
        /\ Len(seq'.results) = Len(seq.results) + 1

\* A call of the sequential loop starts only when none is in flight, for
\* the prompt after the last result.
SeqCallStarts ==
    (bpc = "seq" /\ ~seq.inflight /\ seq'.inflight) =>
        /\ seq'.results = seq.results
        /\ Len(seq.results) < Len(prompts)

\* C18: with one GPU or none the batch has no unit tasks; result k of the
\* loop is an outcome of prompt k; a call starts only after the one before
\* it has returned; and after a call has returned, None included, the loop
\* goes on: the next prompt's call can start.
C18_StrictlySequential ==
    /\ [](Sequential =>
            /\ bpc # "gather"
            /\ running = NoTask
            /\ \A u \in Gpus : unit[u].pc = "notask"
            /\ \A k \in 1 .. Len(seq.results) :
                   seq.results[k] \in GenerateVideoOutcomes(prompts[k])
            /\ seq.inflight => Len(seq.results) < Len(prompts)
            /\ (bpc = "seq" /\ ~seq.inflight /\ Len(seq.results) < Len(prompts)) =>
                   ENABLED SeqGenCall)
    /\ [][Sequential => SeqCallReturns /\ SeqCallStarts]_vars

C18_Witness ==
    /\ Sequential
    /\ bpc = "returned"
    /\ Len(prompts) = 3
    /\ prompts[1] # prompts[2]
    /\ out = <<OviSuccess(1), None, OviSuccess(3)>>

\* C19: in the task of unit u, result k is an outcome of the k-th prompt of
\* its group; the task is inside at most the one call after its last
\* result; after a None result the next prompt's call can start; and a task
\* that completes has a result for every prompt of its group.
C19_UnitInOrder ==
    (MultiGpu /\ bpc \in {"gather", "returned"}) =>
        \A u \in Gpus :
            /\ Len(unit[u].results) <= Len(groups[u + 1])
            /\ \A k \in 1 .. Len(unit[u].results) :
                   unit[u].results[k] \in GenerateVideoOutcomes(groups[u + 1][k])
            /\ unit[u].pc = "ingen" => Len(unit[u].results) < Len(groups[u + 1])
            /\ ( /\ unit[u].pc = "active"
                 /\ running = u
                 /\ Len(unit[u].results) < Len(groups[u + 1]) )
               => ENABLED GenSuspend(u)
            /\ unit[u].pc = "done" => Len(unit[u].results) = Len(groups[u + 1])

C19_Witness ==
    /\ MultiGpu
    /\ bpc = "gather"
    /\ prompts = DistinctPrompts(4)
    /\ num_gpus = 2
    /\ unit[0].pc = "done"
    /\ unit[0].results = <<None, OviSuccess(2)>>
    /\ unit[1].pc = "ingen"
    /\ unit[1].results = <<OviSuccess(3)>>

\* C20: while the multi-GPU batch is suspended in gather, a task exists for
\* every GPU that has prompts; when it has returned, no task is running and
\* every task has ended: done, failed or cancelled.
C20_StructuredFanOut ==
    MultiGpu =>
        /\ bpc = "gather" =>
               \A u \in Gpus : (groups[u + 1] # <<>>) <=> (unit[u].pc # "notask")
        /\ bpc = "returned" =>
               /\ running = NoTask
               /\ \A u \in Gpus : unit[u].pc \in Terminal \cup {"notask"}
               /\ \A i \in 1 .. Len(tasks) : unit[tasks[i]].pc \in Terminal

C20_Witness ==
    /\ MultiGpu
    /\ bpc = "returned"
    /\ num_gpus = 3
    /\ Len(tasks) = 3
    /\ unit[0].pc = "failed"
    /\ unit[1].pc = "cancelled"
    /\ unit[2].pc = "done"

\* ------------------------------------------------------ submit and poll
Polling == fpc \in {"poll_loop", "poll_get", "poll_returned"}

\* C21: the fallback polls only after its submit was accepted with an
\* operation name; a submit that is rejected or names no operation ends the
\* request with None without a wait or a status query; and a polled request
\* returns what the polling produced: the dict of the URL it returned, None
\* when it returned None.
C21_PollAfterAccept ==
    /\ (Polling \/ queries > 0 \/ sleeps > 0) => submit = "accepted"
    /\ submit \in {"rejected", "noname"} =>
           /\ fpc = "returned"
           /\ fresult = None
           /\ queries = 0
           /\ sleeps = 0
    /\ (fpc = "returned" /\ submit = "accepted") =>
           /\ pollExit = "uri" =>
                  fresult = [video_url |-> video_url, provider |-> "gemini"]
           /\ pollExit \in PollFaults => fresult = None /\ video_url = None
           /\ pollExit # "none"

C21_Witness ==
    /\ fpc = "returned"
    /\ submit = "accepted"
    /\ pollExit = "uri"
    /\ queries = 3
    /\ nNotDone = 2
    /\ fresult.video_url = video_url

\* ----------------------------------------------------- no redistribution
InSlice(p, gpu_id) ==
    p \in (SliceStart(gpu_id) + 1) .. (SliceStart(gpu_id) + SliceSize(gpu_id))

\* C22: in a batch, generate_video is called at most once for each prompt
\* position; on the multi-GPU path the caller is the task of the GPU whose
\* slice holds the position, on the sequential path the batch itself; and
\* once the batch has returned, a position of a task that ended early is
\* still without a second call.
C22_HandedOnce ==
    (available /\ bpc \in {"gather", "seq", "returned"}) =>
        \A p \in 1 .. Len(prompts) :
            /\ Len(handed[p]) <= 1
            /\ \A i \in 1 .. Len(handed[p]) :
                   IF MultiGpu
                   THEN handed[p][i] \in Gpus /\ InSlice(p, handed[p][i])
                   ELSE handed[p][i] = NoTask

C22_Witness ==
    /\ bpc = "returned"
    /\ MultiGpu
    /\ num_gpus = 2
    /\ Len(prompts) = 4
    /\ unit[0].pc = "failed"
    /\ unit[0].results = <<None>>
    /\ unit[1].pc = "done"
    /\ handed = <<<<0>>, <<>>, <<1>>, <<1>>>>

\* ------------------------------------------------------- frame effects
FlagsKept == available' = available /\ gemini_available' = gemini_available
EnvKept == env' = env

\* C23: an unavailable provider returns None without doing anything: the
\* primary invokes no backend, the fallback submits and polls nothing, the
\* batch returns one None per prompt with no task, no generation call and
\* CUDA_VISIBLE_DEVICES as it was; and no step of any call changes
\* available of either service.
C23_UnavailableDoesNothing ==
    /\ [](~available =>
            /\ gpc \in {"idle", "call", "returned"}
            /\ ginvoked = 0
            /\ gpc = "returned" => gresult = None
            /\ bpc \in {"idle", "call", "returned"}
            /\ tasks = <<>>
            /\ \A u \in Gpus : unit[u].pc = "notask"
            /\ \A p \in 1 .. Len(prompts) : handed[p] = <<>>
            /\ env = env0
            /\ bpc = "returned" => out = Nones(Len(prompts)))
    /\ [](~gemini_available =>
            /\ fpc \in {"idle", "call", "returned"}
            /\ submit = "none"
            /\ queries = 0
            /\ sleeps = 0
            /\ fpc = "returned" => fresult = None)
    /\ [][FlagsKept]_vars

C23_Witness ==
    /\ ~available
    /\ bpc = "returned"
    /\ num_gpus = 2
    /\ Len(prompts) = 3
    /\ out = <<None, None, None>>
    /\ env = <<"all">>

\* A change of CUDA_VISIBLE_DEVICES is a step of the task of a GPU that has
\* prompts, in a multi-GPU batch.
EnvChangedByTask ==
    (env' # env) =>
        /\ MultiGpu
        /\ bpc = "gather"
        /\ \E u \in Gpus :
               /\ groups[u + 1] # <<>>
               /\ unit[u].pc \in {"pending", "active", "ingen"}
               /\ unit'[u].pc # unit[u].pc

\* C24: CUDA_VISIBLE_DEVICES keeps its value throughout the sequential batch
\* and throughout a single generate_video, and no task remembers it there;
\* it changes only in a step of a GPU's task of the multi-GPU path; a GPU
\* without prompts has no task, remembers nothing and is never the target.
C24_EnvOnlyInTasks ==
    /\ [](Sequential =>
            /\ env = env0
            /\ \A u \in Gpus : unit[u] = NoUnit)
    /\ [](gpc # "idle" => env = env0)
    /\ []((MultiGpu /\ bpc \in {"gather", "returned"}) =>
            \A u \in Gpus : groups[u + 1] = <<>> =>
                /\ unit[u] = NoUnit
                /\ env # Str(u))
    /\ [][EnvChangedByTask]_vars

C24_Witness ==
    /\ MultiGpu
    /\ bpc = "returned"
    /\ num_gpus = 3
    /\ Len(prompts) = 2
    /\ env0 = <<"all">>
    /\ unit[0].pc = "done"
    /\ unit[0].original_env = <<"all">>
    /\ unit[1].pc = "done"
    /\ unit[2] = NoUnit

\* ------------------------------------------------------------- proxies
BothDone == \A i \in Impls : ppc[i] = "done"

\* C25: on every endpoint both proxies answer a request with the same
\* status: 500 and no upstream request without the API key; the upstream's
\* status s for an upstream response with s >= 400; 504 for an upstream
\* timeout; 500 for any other exception; and the upstream's body, returned
\* as it is, for a successful response.
C25_SameStatus ==
    BothDone =>
        /\ presp["main"].status = presp["example"].status
        /\ \A i \in Impls :
               /\ wkey = <<>> => presp[i].status = 500 /\ psent[i] = 0
               /\ psent[i] = 1 =>
                      /\ preq.upstream.kind = "timeout" => presp[i].status = 504
                      /\ preq.upstream.kind = "error" => presp[i].status = 500
                      /\ ( /\ preq.upstream.kind = "response"
                           /\ preq.upstream.status >= 400 )
                         => presp[i].status = preq.upstream.status
                      /\ ( /\ preq.upstream.kind = "response"
                           /\ preq.upstream.status < 400
                           /\ preq.upstream.body # "not_json" )
                         => presp[i] = Returned(preq.upstream.body)

====
